---- MODULE Spec2Model ----
(***************************************************************************)
(* Module registry and index reconciliation of the AulaX backend.          *)
(*                                                                         *)
(*   app/database/modules/base_module.py   BaseModule (setup,              *)
(*                                         _safe_create_index, cleanup)    *)
(*   app/database/modules/auth_module.py   AuthModule (collections,        *)
(*                                         indexes)                        *)
(*   app/database/module_manager.py        ModuleManager                   *)
(*   app/config/database.py                OptimizedDatabaseService        *)
(*                                                                         *)
(* The MongoDB server is the environment: its catalog (collections,        *)
(* indexes, documents) is the variable db, and the driver calls the code   *)
(* awaits are the operators list_collection_names, create_collection,      *)
(* list_indexes, drop_index and create_index below.                        *)
(***************************************************************************)
EXTENDS Integers, Sequences, FiniteSets, TLC

VARIABLES
    db,              \* the live database: collections, index catalogs, documents
    active_modules,  \* the list shared by the service and ModuleManager._active_modules
    modules,         \* ModuleManager._modules: name -> module instance
    manager,         \* OptimizedDatabaseService._module_manager is not None
    faults,          \* number of operations so far during which a driver call failed
    last,            \* the operation that ran last: arguments, result, driver calls, log
    pre,             \* db, modules and active_modules as they were before that operation
    tasks,           \* the add_module coroutines in flight, each at one of its awaits
    conn             \* OptimizedDatabaseService._connection and the handles taken from it

vars == <<db, active_modules, modules, manager, faults, last, pre, tasks, conn>>

----------------------------------------------------------------------------
(* Values *)

\* kwargs.get('expireAfterSeconds') / existing_index.get('expireAfterSeconds')
\* of an index that has no TTL: None.
NoTTL == -1

\* index_name=None, the default of _safe_create_index.
NoName == "None"

\* Key directions are the strings "1", "-1" and "text".
Key1(f) == << <<f, "1">> >>
Key2(f, g) == << <<f, "1">>, <<g, "1">> >>

IndexSpec(coll, key, name, unique, ttl) ==
    [coll |-> coll, key |-> key, name |-> name, unique |-> unique, ttl |-> ttl]

\* AuthModule._collections
AuthCollections ==
    <<"users", "user_sessions", "parent_students", "password_resets",
      "email_verifications">>

\* collections_config of AuthModule._create_collections, in dict order:
\* the validator each collection is created with ("" = {} = no validator).
CollectionsConfig ==
    << [name |-> "users", schema |-> "user_schema"],
       [name |-> "user_sessions", schema |-> "session_schema"],
       [name |-> "parent_students", schema |-> ""],
       [name |-> "password_resets", schema |-> ""],
       [name |-> "email_verifications", schema |-> ""] >>

\* The _safe_create_index calls of AuthModule._create_indexes, in order.
AuthIndexes ==
    << IndexSpec("users", Key1("email"), "idx_user_email", TRUE, NoTTL),
       IndexSpec("users", Key2("role", "status"), "idx_user_role_status", FALSE, NoTTL),
       IndexSpec("users", Key2("email_verified", "is_active"),
                 "idx_user_verification_active", FALSE, NoTTL),
       IndexSpec("users",
                 << <<"profile.first_name", "text">>, <<"profile.last_name", "text">>,
                    <<"email", "text">> >>,
                 "idx_user_search", FALSE, NoTTL),
       IndexSpec("users", << <<"created_at", "-1">> >>, "idx_user_created_at", FALSE, NoTTL),
       IndexSpec("user_sessions", Key1("user_id"), "idx_session_user", FALSE, NoTTL),
       IndexSpec("user_sessions", Key1("token_hash"), "idx_session_token", TRUE, NoTTL),
       IndexSpec("user_sessions", Key1("expires_at"), "ttl_session_expiry", FALSE, 0),
       IndexSpec("user_sessions", Key2("is_active", "expires_at"),
                 "idx_session_active_expires", FALSE, NoTTL),
       IndexSpec("password_resets", Key1("email"), "idx_reset_email", FALSE, NoTTL),
       IndexSpec("password_resets", Key1("token_hash"), "idx_reset_token", TRUE, NoTTL),
       IndexSpec("password_resets", Key1("expires_at"), "ttl_reset_expiry", FALSE, 0),
       IndexSpec("password_resets", Key2("used", "expires_at"),
                 "idx_reset_used_expires", FALSE, NoTTL),
       IndexSpec("email_verifications", Key1("email"), "idx_verification_email", FALSE, NoTTL),
       IndexSpec("email_verifications", Key1("token_hash"), "idx_verification_token",
                 TRUE, NoTTL),
       IndexSpec("email_verifications", Key1("expires_at"), "ttl_verification_expiry",
                 FALSE, 0),
       IndexSpec("email_verifications", Key2("verified", "expires_at"),
                 "idx_verification_status_expires", FALSE, NoTTL),
       IndexSpec("parent_students", Key1("parent_id"), "idx_parent_students_parent",
                 FALSE, NoTTL),
       IndexSpec("parent_students", Key1("student_id"), "idx_parent_students_student",
                 FALSE, NoTTL),
       IndexSpec("parent_students", Key2("parent_id", "student_id"),
                 "idx_parent_students_unique", TRUE, NoTTL) >>

Range(s) == {s[i] : i \in DOMAIN s}

CollNames == Range(AuthCollections)

----------------------------------------------------------------------------
(* The database server, as the driver calls of the code see it *)

IsText(key) == \E i \in DOMAIN key : key[i][2] = "text"

\* The key document the server keeps for a key pattern: the text fields of a
\* text index are replaced by the pair _fts/_ftsx, and the fields go to weights.
StoredKey(key) ==
    IF ~IsText(key) THEN key
    ELSE LET first == CHOOSE i \in DOMAIN key :
                        key[i][2] = "text" /\ \A j \in 1..(i - 1) : key[j][2] # "text"
             before == SubSeq(key, 1, first - 1)
             after == SelectSeq(SubSeq(key, first, Len(key)), LAMBDA p : p[2] # "text")
         IN before \o << <<"_fts", "text">>, <<"_ftsx", "1">> >> \o after

Weights(key) == {key[i][1] : i \in {j \in DOMAIN key : key[j][2] = "text"}}

\* The catalog entry create_index(key, name=name, unique=, expireAfterSeconds=) makes.
StoredIndex(key, name, unique, ttl) ==
    [name |-> name, key |-> StoredKey(key), unique |-> unique, ttl |-> ttl,
     weights |-> Weights(key)]

\* The index every collection is created with.
IdIndex == StoredIndex(Key1("_id"), "_id_", FALSE, NoTTL)

EmptyDb ==
    [colls |-> [c \in {} |-> ""], idx |-> [c \in CollNames |-> {}], docs |-> [c \in CollNames |-> {}]]

HasColl(d, c) == c \in DOMAIN d.colls

AddColl(d, c, schema) ==
    [d EXCEPT !.colls = [x \in DOMAIN d.colls \cup {c} |->
                            IF x = c THEN schema ELSE d.colls[x]],
              !.idx[c] = {IdIndex}]

\* The error of create_collection ("" = none): the collection exists already.
CreateCollectionError(d, c) ==
    IF HasColl(d, c) THEN "CollectionInvalid: collection already exists" ELSE ""

\* The error of drop_index ("" = none).
DropIndexError(d, c, name) ==
    IF ~HasColl(d, c) THEN "NamespaceNotFound"
    ELSE IF ~\E i \in d.idx[c] : i.name = name THEN "IndexNotFound"
    ELSE IF name = "_id_" THEN "InvalidOptions: cannot drop _id index"
    ELSE ""

\* The error of create_index ("" = none). An identical index is not an error;
\* the same name with another definition, the same key under another name, and
\* a second text index of the collection are.
CreateIndexError(d, c, key, name, unique, ttl) ==
    LET new == StoredIndex(key, name, unique, ttl)
        live == IF HasColl(d, c) THEN d.idx[c] ELSE {}
    IN IF new \in live THEN ""
       ELSE IF \E i \in live : i.name = name /\ i.key # new.key
            THEN "IndexKeySpecsConflict"
       ELSE IF \E i \in live : i.name = name
            THEN "IndexOptionsConflict: index already exists with different options"
       ELSE IF \E i \in live : i.key = new.key /\ i.weights = new.weights
            THEN "IndexOptionsConflict: index already exists with a different name"
       ELSE IF IsText(key) /\ \E i \in live : i.weights # {}
            THEN "IndexOptionsConflict: only one text index per collection"
       ELSE ""

\* error_msg tests of the except branch of _safe_create_index.
HasKeySpecsConflict(err) == err = "IndexKeySpecsConflict"

HasAlreadyExists(err) ==
    err \in {"CollectionInvalid: collection already exists",
             "IndexOptionsConflict: index already exists with different options",
             "IndexOptionsConflict: index already exists with a different name"}

----------------------------------------------------------------------------
(* One running operation: the database, registry and active list it works on, *)
(* the driver calls it has made, its log, the driver call that is going to    *)
(* fail (if any), whether an exception is propagating, and its return value.  *)

NoFault == [op |-> "none", target |-> ""]

Ctx(d, mods, active, fault) ==
    [db |-> d, modules |-> mods, active |-> active, calls |-> <<>>, log |-> <<>>,
     fault |-> fault, err |-> "", raised |-> FALSE, mod |-> "", ret |-> "None"]

Hit(ctx, op, target) == ctx.fault = [op |-> op, target |-> target]

\* Record one driver call and its outcome.
Called(ctx, op, coll, name, err, d) ==
    [ctx EXCEPT !.db = IF err = "" THEN d ELSE ctx.db,
                !.calls = Append(@, [op |-> op, coll |-> coll, name |-> name,
                                     ok |-> (err = ""), mod |-> ctx.mod]),
                !.err = err,
                !.fault = IF Hit(ctx, op, IF name = "" THEN coll ELSE name)
                          THEN NoFault ELSE @]

Log(ctx, level, about) ==
    [ctx EXCEPT !.log = Append(@, [level |-> level, about |-> about])]

\* await self._database.list_collection_names()
list_collection_names(ctx) ==
    Called(ctx, "list_collection_names", "", "",
           IF Hit(ctx, "list_collection_names", "") THEN "NetworkTimeout" ELSE "", ctx.db)

\* await self._database.create_collection(name, validator=schema)
create_collection(ctx, c, schema) ==
    Called(ctx, "create_collection", c, "",
           IF Hit(ctx, "create_collection", c) THEN "NetworkTimeout"
           ELSE CreateCollectionError(ctx.db, c),
           AddColl(ctx.db, c, schema))

\* await collection.list_indexes().to_list(length=None); the reconcile of index
\* `name` is the caller.
list_indexes(ctx, c, name) ==
    Called(ctx, "list_indexes", c, name,
           IF Hit(ctx, "list_indexes", name) THEN "NetworkTimeout" ELSE "", ctx.db)

\* Variant: the call drops every index of the collection but _id_.
drop_index_all(ctx, c, name) ==
    Called(ctx, "drop_index", c, name,
           IF Hit(ctx, "drop_index", name) THEN "NetworkTimeout"
           ELSE DropIndexError(ctx.db, c, name),
           [ctx.db EXCEPT !.idx[c] = {i \in @ : i.name = "_id_"}])

\* await collection.drop_index(index_name)
drop_index(ctx, c, name) ==
    Called(ctx, "drop_index", c, name,
           IF Hit(ctx, "drop_index", name) THEN "NetworkTimeout"
           ELSE DropIndexError(ctx.db, c, name),
           [ctx.db EXCEPT !.idx[c] = {i \in @ : i.name # name}])

\* await collection.create_index(index_spec, name=index_name, **kwargs); the
\* server creates a missing collection on the way.
create_index(ctx, c, key, name, unique, ttl) ==
    LET d0 == IF HasColl(ctx.db, c) THEN ctx.db ELSE AddColl(ctx.db, c, "")
    IN Called(ctx, "create_index", c, name,
              IF Hit(ctx, "create_index", name) THEN "NetworkTimeout"
              ELSE CreateIndexError(d0, c, key, name, unique, ttl),
              [d0 EXCEPT !.idx[c] = @ \cup {StoredIndex(key, name, unique, ttl)}])

----------------------------------------------------------------------------
(* BaseModule._safe_create_index *)

\* dict(index_spec), and the dict a key document compares as: field -> direction,
\* the last pair of a field winning, the order of the pairs forgotten.
ToDict(key) ==
    [f \in {key[i][1] : i \in DOMAIN key} |->
        key[CHOOSE i \in DOMAIN key :
                key[i][1] = f /\ \A j \in DOMAIN key : key[j][1] = f => j <= i][2]]

\* existing_key == new_key
SameKey(existing_key, index_spec) == ToDict(existing_key) = ToDict(index_spec)

\* existing_unique == new_unique and existing_ttl == new_ttl
SameOptions(existing_index, unique, ttl) ==
    existing_index.unique = unique /\ existing_index.ttl = ttl

\* Variant: the except branch raises the error again after logging it.
HandleIndexErrorRaising(ctx, name) ==
    [Log(ctx, "error", name) EXCEPT !.raised = TRUE]

\* The except branch: every error is logged, none is raised.
HandleIndexError(ctx, name) ==
    IF HasKeySpecsConflict(ctx.err) THEN Log(ctx, "warning", name)
    ELSE IF HasAlreadyExists(ctx.err) THEN Log(ctx, "info", name)
    ELSE Log(ctx, "error", name)

\* After create_index has returned or raised: log the creation or handle the error.
AfterCreateIndex(c1, name) ==
    IF c1.err # "" THEN HandleIndexError(c1, name) ELSE Log(c1, "created", name)

\* Variant: the index is created without the options in kwargs.
CreateStepWithoutOptions(ctx, c, key, name, unique, ttl) ==
    AfterCreateIndex(create_index(ctx, c, key, name, FALSE, NoTTL), name)

\* The tail of the try block: create the index.
CreateStep(ctx, c, key, name, unique, ttl) ==
    AfterCreateIndex(create_index(ctx, c, key, name, unique, ttl), name)

\* Variant: a failed drop_index is tried once more before the creation.
AfterDropIndexRetrying(c3, c, key, name, unique, ttl) ==
    IF c3.err # "" THEN CreateStep(drop_index(c3, c, name), c, key, name, unique, ttl)
    ELSE CreateStep(c3, c, key, name, unique, ttl)

\* After drop_index has returned or raised.
AfterDropIndex(c3, c, key, name, unique, ttl) ==
    IF c3.err # "" THEN HandleIndexError(c3, name)
    ELSE CreateStep(c3, c, key, name, unique, ttl)

\* Variant: a different definition is dropped whatever its name.
CompareExistingAnyName(c1, existing_index, c, key, name, unique, ttl) ==
    IF SameKey(existing_index.key, key) /\ SameOptions(existing_index, unique, ttl)
    THEN Log(c1, "exists", name)
    ELSE AfterDropIndex(drop_index(Log(c1, "recreate", name), c, name),
                        c, key, name, unique, ttl)

\* if existing_index: identical definitions are left alone; a different one is
\* dropped, unless it is _id_, and created again.
CompareExisting(c1, existing_index, c, key, name, unique, ttl) ==
    IF SameKey(existing_index.key, key) /\ SameOptions(existing_index, unique, ttl)
    THEN Log(c1, "exists", name)
    ELSE IF name # "_id_"
         THEN AfterDropIndex(drop_index(Log(c1, "recreate", name), c, name),
                             c, key, name, unique, ttl)
         ELSE CreateStep(Log(c1, "recreate", name), c, key, name, unique, ttl)

\* The search of the listed indexes for one of the wanted name.
FindExisting(c1, existing, c, key, name, unique, ttl) ==
    IF existing = {} THEN CreateStep(c1, c, key, name, unique, ttl)
    ELSE CompareExisting(c1, CHOOSE i \in existing : TRUE, c, key, name, unique, ttl)

\* After list_indexes has returned or raised.
AfterListIndexes(c1, c, key, name, unique, ttl) ==
    IF c1.err # "" THEN HandleIndexError(c1, name)
    ELSE FindExisting(c1, {i \in c1.db.idx[c] : i.name = name},
                      c, key, name, unique, ttl)

_safe_create_index(ctx, c, key, name, unique, ttl) ==
    IF name = NoName THEN Log(ctx, "error", name)
    ELSE AfterListIndexes(list_indexes(ctx, c, name), c, key, name, unique, ttl)

----------------------------------------------------------------------------
(* AuthModule and BaseModule.setup *)

RECURSIVE CreateCollectionsLoop(_, _, _)
\* for collection_name, schema in collections_config.items(): ...
CreateCollectionsLoop(ctx, existing_collections, i) ==
    IF i > Len(CollectionsConfig) THEN ctx
    ELSE LET cfg == CollectionsConfig[i]
         IN IF cfg.name \in existing_collections
            THEN CreateCollectionsLoop(ctx, existing_collections, i + 1)
            ELSE LET c1 == create_collection(ctx, cfg.name, cfg.schema)
                 IN IF c1.err # ""
                    THEN [Log(c1, "error", "collections") EXCEPT !.raised = TRUE]
                    ELSE CreateCollectionsLoop(c1, existing_collections, i + 1)

\* Variant: create_collection is called for every declared collection.
_create_collections_unconditional(ctx) ==
    LET c1 == list_collection_names(ctx)
    IN IF c1.err # ""
       THEN [Log(c1, "error", "collections") EXCEPT !.raised = TRUE]
       ELSE CreateCollectionsLoop(c1, {}, 1)

\* AuthModule._create_collections: any error is logged and raised again.
_create_collections(ctx) ==
    LET c1 == list_collection_names(ctx)
    IN IF c1.err # ""
       THEN [Log(c1, "error", "collections") EXCEPT !.raised = TRUE]
       ELSE CreateCollectionsLoop(c1, DOMAIN c1.db.colls, 1)

RECURSIVE CreateIndexesFrom(_, _)
\* The _safe_create_index calls in order; an exception leaving one of them would
\* skip the rest and be logged by the except of _create_indexes, not raised.
CreateIndexesFrom(ctx, i) ==
    IF ctx.raised THEN [Log(ctx, "error", "indexes") EXCEPT !.raised = FALSE]
    ELSE IF i > Len(AuthIndexes) THEN ctx
    ELSE LET s == AuthIndexes[i]
         IN CreateIndexesFrom(
                _safe_create_index(ctx, s.coll, s.key, s.name, s.unique, s.ttl), i + 1)

\* AuthModule._create_indexes
_create_indexes(ctx) == CreateIndexesFrom(ctx, 1)

\* BaseModule._setup_specific: pass
_setup_specific(ctx) == ctx

\* Variant: the indexes are reconciled before the collections are created.
setup_indexes_first(ctx) ==
    LET c1 == _create_collections(_create_indexes(ctx))
    IN IF c1.raised THEN c1 ELSE Log(_setup_specific(c1), "setup", ctx.mod)

\* Variant: an error of _create_collections does not end the setup.
setup_continuing(ctx) ==
    LET c1 == _create_collections(ctx)
    IN Log(_setup_specific(_create_indexes([c1 EXCEPT !.raised = FALSE])),
           "setup", ctx.mod)

\* BaseModule.setup: collections, then indexes, then the module's own setup, then
\* the log line that the module is configured.
setup(ctx) ==
    LET c1 == _create_collections(ctx)
    IN IF c1.raised THEN c1
       ELSE Log(_setup_specific(_create_indexes(c1)), "setup", ctx.mod)

\* AuthModule._get_module_collections
_get_module_collections == AuthCollections

\* BaseModule.get_status, the try branch.
ModuleStatus ==
    [status |-> "active", collections |-> Len(_get_module_collections)]

\* The entry of a module whose status could not be obtained.
ErrorStatus == [status |-> "error", error |-> "Exception"]

\* BaseModule.get_status: an error of _get_module_collections is returned as an
\* error entry. AuthModule returns its list; a module that asks the database for
\* its collections can fail here, so whether it does is an input.
module_get_status(collections_raise) ==
    IF collections_raise THEN ErrorStatus ELSE ModuleStatus

----------------------------------------------------------------------------
(* ModuleManager *)

\* The keys of ModuleManager._available_modules.
AvailableModules == {"auth"}

\* A module instance is an identity; a new instance differs from the live ones.
NewInstance(mods) ==
    CHOOSE i \in 0..Cardinality(DOMAIN mods) :
        /\ \A n \in DOMAIN mods : mods[n] # i
        /\ \A j \in 0..(i - 1) : \E n \in DOMAIN mods : mods[n] = j

Register(mods, name, inst) ==
    [n \in DOMAIN mods \cup {name} |-> IF n = name THEN inst ELSE mods[n]]

Unregister(mods, name) == [n \in DOMAIN mods \ {name} |-> mods[n]]

\* Variant: a name that is not available raises instead of returning.
_setup_module_raising(ctx, module_name) ==
    IF module_name \notin AvailableModules
    THEN [Log(ctx, "error", module_name) EXCEPT !.raised = TRUE]
    ELSE LET c1 == setup([ctx EXCEPT !.mod = module_name])
         IN IF c1.raised
            THEN [Log(c1, "error", module_name) EXCEPT !.mod = ""]
            ELSE [Log(c1, "configured", module_name) EXCEPT
                      !.modules = Register(@, module_name, NewInstance(ctx.modules)),
                      !.mod = ""]

\* ModuleManager._setup_module
_setup_module(ctx, module_name) ==
    IF module_name \notin AvailableModules
    THEN Log(ctx, "error", module_name)
    ELSE LET module_instance == NewInstance(ctx.modules)
             c1 == setup([ctx EXCEPT !.mod = module_name])
         IN IF c1.raised
            THEN [Log(c1, "error", module_name) EXCEPT !.mod = ""]
            ELSE [Log(c1, "configured", module_name) EXCEPT
                      !.modules = Register(@, module_name, module_instance),
                      !.mod = ""]

RECURSIVE SetupModulesFrom(_, _, _)
SetupModulesFrom(ctx, names, i) ==
    IF i > Len(names) THEN ctx
    ELSE LET c1 == _setup_module(ctx, names[i])
         IN IF c1.raised THEN c1 ELSE SetupModulesFrom(c1, names, i + 1)

\* ModuleManager.setup_modules: the first activation that raises ends the loop.
setup_modules(ctx) == SetupModulesFrom(ctx, ctx.active, 1)

\* Variant: the module is set up again without looking at _modules.
add_module_always(ctx, module_name) ==
    LET c1 == _setup_module(ctx, module_name)
    IN IF c1.raised
       THEN [Log(c1, "error", module_name) EXCEPT !.raised = FALSE, !.ret = "False"]
       ELSE [c1 EXCEPT !.ret = "True"]

\* ModuleManager.add_module
add_module(ctx, module_name) ==
    IF module_name \notin DOMAIN ctx.modules
    THEN LET c1 == _setup_module(ctx, module_name)
         IN IF c1.raised
            THEN [Log(c1, "error", module_name) EXCEPT !.raised = FALSE, !.ret = "False"]
            ELSE [c1 EXCEPT !.ret = "True"]
    ELSE [ctx EXCEPT !.ret = "False"]

\* Variant: the cleanup hook drops the collections of the module.
cleanup_dropping(ctx, cleanup_raises) ==
    [ctx EXCEPT !.db = [@ EXCEPT
        !.colls = [c \in DOMAIN @ \ CollNames |-> @[c]],
        !.idx = [c \in DOMAIN @ |-> IF c \in CollNames THEN {} ELSE @[c]],
        !.docs = [c \in DOMAIN @ |-> IF c \in CollNames THEN {} ELSE @[c]]],
                !.raised = cleanup_raises]

\* BaseModule.cleanup: pass. The hook is optional and a module may override it,
\* so whether it raises is an input of the removal.
cleanup(ctx, cleanup_raises) == [ctx EXCEPT !.raised = cleanup_raises]

\* ModuleManager.remove_module
remove_module(ctx, module_name, cleanup_raises) ==
    IF module_name \in DOMAIN ctx.modules
    THEN LET c1 == cleanup(ctx, cleanup_raises)
         IN IF c1.raised
            THEN [Log(c1, "error", module_name) EXCEPT !.raised = FALSE, !.ret = "False"]
            ELSE [c1 EXCEPT !.modules = Unregister(@, module_name), !.ret = "True"]
    ELSE [ctx EXCEPT !.ret = "False"]

NoStatus == [active_modules |-> -1, available_modules |-> -1, modules |-> <<>>]

\* Variant: the status error of a module leaves the loop, its entry is not written.
get_status_propagating(mods, raising) ==
    [active_modules |-> Cardinality(DOMAIN mods),
     available_modules |-> Cardinality(AvailableModules),
     modules |-> [n \in DOMAIN mods \ raising |-> ModuleStatus]]

\* ModuleManager.get_status; `raising` are the modules whose status call fails.
get_status(mods, raising) ==
    [active_modules |-> Cardinality(DOMAIN mods),
     available_modules |-> Cardinality(AvailableModules),
     modules |-> [n \in DOMAIN mods |-> module_get_status(n \in raising)]]

----------------------------------------------------------------------------
(* OptimizedDatabaseService *)

Remove(list, x) ==
    LET first == CHOOSE i \in DOMAIN list :
                    list[i] = x /\ \A j \in 1..(i - 1) : list[j] # x
    IN SubSeq(list, 1, first - 1) \o SubSeq(list, first + 1, Len(list))

\* OptimizedDatabaseService.add_module
service_add_module(ctx, has_manager, module_name) ==
    IF module_name \notin Range(ctx.active)
    THEN LET c0 == [ctx EXCEPT !.active = Append(@, module_name)]
             c1 == IF has_manager THEN add_module(c0, module_name) ELSE c0
         IN [c1 EXCEPT !.ret = "True"]
    ELSE [ctx EXCEPT !.ret = "False"]

\* OptimizedDatabaseService.remove_module
service_remove_module(ctx, has_manager, module_name, cleanup_raises) ==
    IF module_name = "auth" THEN [ctx EXCEPT !.ret = "False"]
    ELSE IF module_name \in Range(ctx.active)
    THEN LET c0 == [ctx EXCEPT !.active = Remove(@, module_name)]
             c1 == IF has_manager
                   THEN remove_module(c0, module_name, cleanup_raises) ELSE c0
         IN [c1 EXCEPT !.ret = "True"]
    ELSE [ctx EXCEPT !.ret = "False"]

\* OptimizedDatabaseService.get_active_modules, and the "active_modules" entry
\* of health_check: the service's list.
get_active_modules == active_modules

AdminDoc == "admin@aulax.com"

\* OptimizedDatabaseService._create_initial_data: the administrator is inserted
\* when users holds none (the insert creates a missing collection).
_create_initial_data(ctx) ==
    IF AdminDoc \in ctx.db.docs["users"] THEN ctx
    ELSE LET d0 == IF HasColl(ctx.db, "users") THEN ctx.db
                   ELSE AddColl(ctx.db, "users", "")
         IN [ctx EXCEPT !.db = [d0 EXCEPT !.docs["users"] = @ \cup {AdminDoc}]]

\* OptimizedDatabaseService.initialize, from the creation of the manager on.
initialize(ctx) ==
    LET c1 == setup_modules(ctx)
    IN IF c1.raised THEN c1 ELSE _create_initial_data(c1)

----------------------------------------------------------------------------
(* Bounds and inputs *)

\* Operations per behaviour during which an injected driver failure occurs.
MaxFaults == 1

\* Names a caller passes to add_module / remove_module.
ModuleNames == {"auth", "ghost"}

\* Active lists the manager is constructed with.
InitLists == {<<"auth">>, <<"ghost", "auth">>, <<"ghost">>}

IndexNames == {AuthIndexes[i].name : i \in DOMAIN AuthIndexes}

\* The collections and indexes whose driver calls can be made to fail: the first
\* and a later collection; the first index, which StaleDb holds with another
\* definition, and the text index.
FaultCollections == {"users", "password_resets"}

FaultIndexes == {"idx_user_email", "idx_user_search"}

\* The driver calls of an activation that can be made to fail.
Faults ==
    {[op |-> "list_collection_names", target |-> ""]}
    \cup {[op |-> "create_collection", target |-> c] : c \in FaultCollections}
    \cup {[op |-> o, target |-> n] :
            o \in {"list_indexes", "drop_index", "create_index"}, n \in FaultIndexes}

\* The database a complete activation of auth leaves behind.
ConvergedDb == setup(Ctx(EmptyDb, <<>>, <<>>, NoFault)).db

Redefined(d, c, name, index) ==
    [d EXCEPT !.idx[c] = {i \in @ : i.name # name} \cup {index}]

\* Databases found at start-up: a new one, and ones an earlier deployment left.
StaleDb ==
    LET d1 == Redefined(ConvergedDb, "users", "idx_user_email",
                        StoredIndex(Key1("email"), "idx_user_email", FALSE, NoTTL))
        d2 == Redefined(d1, "user_sessions", "ttl_session_expiry",
                        StoredIndex(Key1("expires_at"), "ttl_session_expiry", FALSE, 3600))
    IN [d2 EXCEPT !.docs["users"] = {AdminDoc}]

ForeignDb ==
    Redefined(ConvergedDb, "users", "idx_user_email",
              StoredIndex(Key1("email"), "email_1", TRUE, NoTTL))

PermutedDb ==
    Redefined(ConvergedDb, "users", "idx_user_role_status",
              StoredIndex(Key2("status", "role"), "idx_user_role_status", FALSE, NoTTL))

PartialDb == AddColl(AddColl(EmptyDb, "users", "user_schema"), "user_sessions", "")

InitDbs == {EmptyDb, StaleDb, ForeignDb, PermutedDb, PartialDb}

----------------------------------------------------------------------------
(* Operations *)

Failed(calls) == \E i \in DOMAIN calls : ~calls[i].ok

\* The operation returned normally and none of its driver calls failed.
Clean(op) == ~op.raised /\ ~Failed(op.calls)

\* No index specification: the operation is not a reconcile.
NoSpec == IndexSpec("", <<>>, "", FALSE, NoTTL)

\* OptimizedDatabaseService.__init__: self._connection = None. A connection
\* object is known by its serial number (0 = None), and so is the database
\* handle taken from it.
NoConnection ==
    [connection |-> 0, url |-> "", client |-> FALSE, database |-> FALSE,
     is_connected |-> FALSE, closed |-> FALSE, serial |-> 0, err |-> "",
     manager_db |-> 0, instance_db |-> <<>>, dbs |-> <<>>,
     before |-> [connection |-> 0, url |-> "", is_connected |-> FALSE]]

NoOp ==
    [op |-> "init", name |-> "", ret |-> "None", raised |-> FALSE, calls |-> <<>>,
     log |-> <<>>, status |-> NoStatus, cleanup_raised |-> FALSE,
     status_raising |-> {}, spec |-> NoSpec]

FaultChoices == IF faults < MaxFaults THEN Faults \cup {NoFault} ELSE {NoFault}

\* The operation `op` has run from the current state and ended in ctx c.
Commit(op, name, c, fault, status, cleanup_raised, status_raising) ==
    /\ fault # NoFault => c.fault = NoFault
    /\ db' = c.db
    /\ modules' = c.modules
    /\ active_modules' = c.active
    /\ faults' = IF fault = NoFault THEN faults ELSE faults + 1
    /\ last' = [op |-> op, name |-> name, ret |-> c.ret, raised |-> c.raised,
                calls |-> c.calls, log |-> c.log, status |-> status,
                cleanup_raised |-> cleanup_raised,
                status_raising |-> status_raising, spec |-> NoSpec]
    /\ pre' = [db |-> db, modules |-> modules, active |-> active_modules,
               op |-> last.op, clean |-> Clean(last),
               name |-> last.name, ret |-> last.ret, db0 |-> pre.db]
    /\ UNCHANGED <<tasks, conn>>

Start(fault) == Ctx(db, modules, active_modules, fault)

Init ==
    /\ db \in InitDbs
    /\ active_modules \in InitLists
    /\ modules = <<>>
    /\ manager = FALSE
    /\ faults = 0
    /\ last = NoOp
    /\ tasks = <<>>
    /\ conn = NoConnection
    /\ pre = [db |-> db, modules |-> modules, active |-> active_modules,
              op |-> "init", clean |-> TRUE,
              name |-> "", ret |-> "None", db0 |-> db]

\* await database_service.initialize()
Initialize ==
    /\ ~manager
    /\ manager' = TRUE
    /\ \E fault \in FaultChoices :
          Commit("initialize", "", initialize(Start(fault)), fault, NoStatus, FALSE, {})

\* await module_manager.setup_modules()
SetupModules ==
    /\ manager
    /\ UNCHANGED manager
    /\ \E fault \in FaultChoices :
          Commit("setup_modules", "", setup_modules(Start(fault)), fault, NoStatus, FALSE, {})

\* await module_manager.add_module(name)
AddModule(name) ==
    /\ manager
    /\ UNCHANGED manager
    /\ \E fault \in FaultChoices :
          Commit("add_module", name, add_module(Start(fault), name), fault,
                 NoStatus, FALSE, {})

\* await module_manager.remove_module(name)
RemoveModule(name, cleanup_raises) ==
    /\ manager
    /\ cleanup_raises => name \in DOMAIN modules
    /\ UNCHANGED manager
    /\ Commit("remove_module", name, remove_module(Start(NoFault), name, cleanup_raises),
              NoFault, NoStatus, cleanup_raises, {})

\* await database_service.add_module(name)
ServiceAddModule(name) ==
    /\ UNCHANGED manager
    /\ \E fault \in FaultChoices :
          Commit("service_add_module", name,
                 service_add_module(Start(fault), manager, name), fault, NoStatus, FALSE, {})

\* await database_service.remove_module(name)
ServiceRemoveModule(name, cleanup_raises) ==
    /\ cleanup_raises =>
          manager /\ name # "auth" /\ name \in Range(active_modules)
                  /\ name \in DOMAIN modules
    /\ UNCHANGED manager
    /\ Commit("service_remove_module", name,
              service_remove_module(Start(NoFault), manager, name, cleanup_raises),
              NoFault, NoStatus, cleanup_raises, {})

\* await module_manager.get_status()
GetStatus ==
    /\ manager
    /\ UNCHANGED manager
    /\ \E raising \in SUBSET DOMAIN modules :
          Commit("get_status", "", Start(NoFault), NoFault,
                 get_status(modules, raising), FALSE, raising)

Next ==
    \/ Initialize
    \/ SetupModules
    \/ \E name \in ModuleNames : AddModule(name)
    \/ \E name \in ModuleNames, cleanup_raises \in BOOLEAN :
          RemoveModule(name, cleanup_raises)
    \/ \E name \in ModuleNames : ServiceAddModule(name)
    \/ \E name \in ModuleNames, cleanup_raises \in BOOLEAN :
          ServiceRemoveModule(name, cleanup_raises)
    \/ GetStatus

Spec == Init /\ [][Next]_vars

----------------------------------------------------------------------------
(* The reconciler alone: one collection, any live catalog, any desired index *)

\* Desired definitions: a plain key, its reverse, a unique and a TTL variant,
\* a compound key and its permutation, and a text key.
RSpecs ==
    { [key |-> << <<"f", "1">> >>, unique |-> FALSE, ttl |-> NoTTL],
      [key |-> << <<"f", "-1">> >>, unique |-> FALSE, ttl |-> NoTTL],
      [key |-> << <<"f", "1">> >>, unique |-> TRUE, ttl |-> NoTTL],
      [key |-> << <<"f", "1">> >>, unique |-> FALSE, ttl |-> 0],
      [key |-> << <<"f", "1">>, <<"g", "1">> >>, unique |-> FALSE, ttl |-> NoTTL],
      [key |-> << <<"g", "1">>, <<"f", "1">> >>, unique |-> FALSE, ttl |-> NoTTL],
      [key |-> << <<"f", "text">> >>, unique |-> FALSE, ttl |-> NoTTL] }

\* Definitions of idx_b, an index somebody else created.
RForeign ==
    {s \in RSpecs : s.key \in {<< <<"f", "-1">> >>, << <<"f", "1">>, <<"g", "1">> >>}}

\* Names a reconcile is asked for.
RNames == {"idx_a", "_id_", NoName}

RLive(name, specs) ==
    {{}} \cup {{StoredIndex(s.key, name, s.unique, s.ttl)} : s \in specs}

\* A catalog the server can hold: one index per name, per key, one text index.
ValidCatalog(cat) ==
    \A i, j \in cat :
        i # j => /\ i.name # j.name
                 /\ ~(i.key = j.key /\ i.weights = j.weights)
                 /\ ~(i.weights # {} /\ j.weights # {})

RCatalogs ==
    {cat \in {{IdIndex} \cup a \cup b :
                a \in RLive("idx_a", RSpecs), b \in RLive("idx_b", RForeign)} :
        ValidCatalog(cat)}

RFaults ==
    {NoFault} \cup {[op |-> o, target |-> "idx_a"] :
                        o \in {"list_indexes", "drop_index", "create_index"}}

InitReconcile ==
    /\ db \in {EmptyDb}
              \cup {[AddColl(EmptyDb, "users", "") EXCEPT !.idx["users"] = cat] :
                        cat \in RCatalogs}
    /\ active_modules = <<>>
    /\ modules = <<>>
    /\ manager = FALSE
    /\ faults = 0
    /\ last = NoOp
    /\ tasks = <<>>
    /\ conn = NoConnection
    /\ pre = [db |-> db, modules |-> modules, active |-> active_modules,
              op |-> "init", clean |-> TRUE,
              name |-> "", ret |-> "None", db0 |-> db]

\* await self._safe_create_index("users", key, index_name=name, unique=, expireAfterSeconds=)
Reconcile(key, name, unique, ttl, fault) ==
    LET c == _safe_create_index(Ctx(db, modules, active_modules, fault),
                                "users", key, name, unique, ttl)
    IN /\ fault # NoFault => c.fault = NoFault
       /\ db' = c.db
       /\ last' = [op |-> "_safe_create_index", name |-> name, ret |-> c.ret,
                   raised |-> c.raised, calls |-> c.calls, log |-> c.log,
                   status |-> NoStatus, cleanup_raised |-> FALSE,
                   status_raising |-> {},
                   spec |-> IndexSpec("users", key, name, unique, ttl)]
       /\ pre' = [db |-> db, modules |-> modules, active |-> active_modules,
                  op |-> last.op, clean |-> Clean(last),
               name |-> last.name, ret |-> last.ret, db0 |-> pre.db]
       /\ UNCHANGED <<active_modules, modules, manager, faults, tasks, conn>>

NextReconcile ==
    \E s \in RSpecs, name \in RNames, fault \in RFaults :
        Reconcile(s.key, name, s.unique, s.ttl, fault)

SpecReconcile == InitReconcile /\ [][NextReconcile]_vars

----------------------------------------------------------------------------
(* The module classes, each set up on its own: module_class(database).setup() *)

ModuleClasses == {"auth", "academic", "task", "content", "communication"}

\* AcademicModule._collections
AcademicCollections ==
    <<"subjects", "class_plans", "academic_calendar", "enrollments">>

\* collections_config of AcademicModule._create_collections, in dict order.
AcademicConfig ==
    << [name |-> "subjects", schema |-> "subject_schema"],
       [name |-> "class_plans", schema |-> ""],
       [name |-> "academic_calendar", schema |-> ""],
       [name |-> "enrollments", schema |-> ""] >>

\* The create_index calls of AcademicModule._create_indexes, in order; a key given
\* as a field name is that field ascending.
AcademicIndexes ==
    << IndexSpec("subjects", Key1("code"), "idx_subject_code", TRUE, NoTTL),
       IndexSpec("subjects", Key1("teacher_id"), "idx_subject_teacher", FALSE, NoTTL),
       IndexSpec("subjects", Key2("academic_year", "semester"),
                 "idx_subject_period", FALSE, NoTTL) >>

\* TaskModule._collections
TaskCollections ==
    <<"tasks", "task_submissions", "task_evaluations", "ai_evaluations">>

\* collections_config of TaskModule._create_collections, in dict order.
TaskConfig ==
    << [name |-> "tasks", schema |-> "task_schema"],
       [name |-> "task_submissions", schema |-> "submission_schema"],
       [name |-> "task_evaluations", schema |-> ""],
       [name |-> "ai_evaluations", schema |-> ""] >>

\* The create_index calls of TaskModule._create_indexes, in order; a key given
\* as a field name is that field ascending.
TaskIndexes ==
    << IndexSpec("tasks", Key1("subject_id"), "idx_task_subject", FALSE, NoTTL),
       IndexSpec("tasks", Key1("teacher_id"), "idx_task_teacher", FALSE, NoTTL),
       IndexSpec("tasks", Key1("due_date"), "idx_task_due_date", FALSE, NoTTL),
       IndexSpec("tasks", Key2("subject_id", "status"),
                 "idx_task_subject_status", FALSE, NoTTL),
       IndexSpec("task_submissions", Key2("task_id", "student_id"),
                 "idx_submission_unique", TRUE, NoTTL),
       IndexSpec("task_submissions", Key1("student_id"),
                 "idx_submission_student", FALSE, NoTTL),
       IndexSpec("task_submissions", Key1("submitted_at"),
                 "idx_submission_date", FALSE, NoTTL),
       IndexSpec("task_evaluations", Key1("submission_id"),
                 "idx_evaluation_submission", TRUE, NoTTL),
       IndexSpec("task_evaluations", Key1("student_id"),
                 "idx_evaluation_student", FALSE, NoTTL) >>

\* ContentModule._collections
ContentCollections ==
    <<"contents", "content_categories", "file_uploads">>

\* collections_config of ContentModule._create_collections, in dict order.
ContentConfig ==
    << [name |-> "contents", schema |-> "content_schema"],
       [name |-> "content_categories", schema |-> ""],
       [name |-> "file_uploads", schema |-> ""] >>

\* The create_index calls of ContentModule._create_indexes, in order; a key given
\* as a field name is that field ascending.
ContentIndexes ==
    << IndexSpec("contents", Key1("subject_id"), "idx_content_subject", FALSE, NoTTL),
       IndexSpec("contents", Key1("teacher_id"), "idx_content_teacher", FALSE, NoTTL),
       IndexSpec("contents", Key1("content_type"), "idx_content_type", FALSE, NoTTL),
       IndexSpec("contents",
                 << <<"title", "text">>, <<"description", "text">>,
                    <<"tags", "text">> >>,
                 "idx_content_search", FALSE, NoTTL) >>

\* CommunicationModule._collections
CommunicationCollections ==
    <<"notifications", "chat_messages", "aulabot_conversations">>

\* collections_config of CommunicationModule._create_collections, in dict order.
CommunicationConfig ==
    << [name |-> "notifications", schema |-> "notification_schema"],
       [name |-> "chat_messages", schema |-> "chat_schema"],
       [name |-> "aulabot_conversations", schema |-> ""] >>

\* The create_index calls of CommunicationModule._create_indexes, in order; a key given
\* as a field name is that field ascending; the
\* partialFilterExpression of ttl_notification_expiry is compared nowhere and is
\* left out.
CommunicationIndexes ==
    << IndexSpec("notifications", Key1("recipient_id"),
                 "idx_notification_recipient", FALSE, NoTTL),
       IndexSpec("notifications", Key2("recipient_id", "is_read"),
                 "idx_notification_unread", FALSE, NoTTL),
       IndexSpec("notifications", Key1("created_at"),
                 "idx_notification_date", FALSE, NoTTL),
       IndexSpec("notifications", Key1("expires_at"),
                 "ttl_notification_expiry", FALSE, 0),
       IndexSpec("chat_messages", Key1("subject_id"), "idx_chat_subject", FALSE, NoTTL),
       IndexSpec("chat_messages", Key2("subject_id", "created_at"),
                 "idx_chat_timeline", FALSE, NoTTL),
       IndexSpec("chat_messages", Key1("sender_id"), "idx_chat_sender", FALSE, NoTTL) >>

\* self._collections, collections_config and the declared indexes of a module
\* class.
ModuleCollections(m) ==
    CASE m = "auth" -> AuthCollections
      [] m = "academic" -> AcademicCollections
      [] m = "task" -> TaskCollections
      [] m = "content" -> ContentCollections
      [] m = "communication" -> CommunicationCollections

\* Variant: only the first entry of collections_config is declared.
ModuleConfigFirstOnly(m) ==
    CASE m = "auth" -> SubSeq(CollectionsConfig, 1, 1)
      [] m = "academic" -> SubSeq(AcademicConfig, 1, 1)
      [] m = "task" -> SubSeq(TaskConfig, 1, 1)
      [] m = "content" -> SubSeq(ContentConfig, 1, 1)
      [] m = "communication" -> SubSeq(CommunicationConfig, 1, 1)

ModuleConfig(m) ==
    CASE m = "auth" -> CollectionsConfig
      [] m = "academic" -> AcademicConfig
      [] m = "task" -> TaskConfig
      [] m = "content" -> ContentConfig
      [] m = "communication" -> CommunicationConfig

ModuleIndexes(m) ==
    CASE m = "auth" -> AuthIndexes
      [] m = "academic" -> AcademicIndexes
      [] m = "task" -> TaskIndexes
      [] m = "content" -> ContentIndexes
      [] m = "communication" -> CommunicationIndexes

RECURSIVE ModuleCollectionsLoop(_, _, _, _)
\* _create_collections of the academic, task, content and communication
\* modules after list_collection_names: the loop over collections_config; as in
\* AuthModule, any error is logged and raised again.
ModuleCollectionsLoop(ctx, config, existing_collections, i) ==
    IF ctx.err # "" THEN [Log(ctx, "error", "collections") EXCEPT !.raised = TRUE]
    ELSE IF i > Len(config) THEN ctx
    ELSE IF config[i].name \in existing_collections
    THEN ModuleCollectionsLoop(ctx, config, existing_collections, i + 1)
    ELSE ModuleCollectionsLoop(create_collection(ctx, config[i].name, config[i].schema),
                               config, existing_collections, i + 1)

module_create_collections(ctx, m) ==
    ModuleCollectionsLoop(list_collection_names(ctx), ModuleConfig(m),
                          DOMAIN ctx.db.colls, 1)

RECURSIVE ModuleIndexesLoop(_, _, _)
\* _create_indexes of the academic, task, content and communication modules:
\* create_index is called for one index after the other; the first error is
\* logged and raised again.
ModuleIndexesLoop(ctx, specs, i) ==
    IF ctx.err # "" THEN [Log(ctx, "error", "indexes") EXCEPT !.raised = TRUE]
    ELSE IF i > Len(specs) THEN ctx
    ELSE ModuleIndexesLoop(
             create_index(ctx, specs[i].coll, specs[i].key, specs[i].name,
                          specs[i].unique, specs[i].ttl),
             specs, i + 1)

module_create_indexes(ctx, m) == ModuleIndexesLoop(ctx, ModuleIndexes(m), 1)

\* BaseModule.setup after _create_indexes.
AfterModuleIndexes(c2, m) ==
    IF c2.raised THEN c2 ELSE Log(_setup_specific(c2), "setup", m)

\* BaseModule.setup after _create_collections.
AfterModuleCollections(c1, m) ==
    IF c1.raised THEN c1 ELSE AfterModuleIndexes(module_create_indexes(c1, m), m)

\* BaseModule.setup of an instance of the module class m.
module_setup(ctx, m) ==
    IF m = "auth" THEN setup(ctx)
    ELSE AfterModuleCollections(module_create_collections(ctx, m), m)

AllCollNames == UNION {Range(ModuleCollections(m)) : m \in ModuleClasses}

EmptyDbAll ==
    [colls |-> [c \in {} |-> ""], idx |-> [c \in AllCollNames |-> {}],
     docs |-> [c \in AllCollNames |-> {}]]

\* A database in which the collection of the first index of module m holds an
\* index somebody else made: of the same name on another key ("name"), or on the
\* same key under another name ("key").
ConflictDb(m, kind) ==
    LET s == ModuleIndexes(m)[1]
    IN [AddColl(EmptyDbAll, s.coll, "") EXCEPT
           !.idx[s.coll] = @ \cup
               {IF kind = "name"
                THEN StoredIndex(Key1("legacy_field"), s.name, FALSE, NoTTL)
                ELSE StoredIndex(s.key, "legacy_1", s.unique, s.ttl)}]

ModuleInitDbs ==
    {EmptyDbAll} \cup {ConflictDb(m, kind) : m \in ModuleClasses, kind \in {"name", "key"}}

InitModules ==
    /\ db \in ModuleInitDbs
    /\ active_modules = <<>>
    /\ modules = <<>>
    /\ manager = FALSE
    /\ faults = 0
    /\ last = NoOp
    /\ tasks = <<>>
    /\ conn = NoConnection
    /\ pre = [db |-> db, modules |-> modules, active |-> active_modules,
              op |-> "init", clean |-> TRUE,
              name |-> "", ret |-> "None", db0 |-> db]

\* await module_class(database).setup()
SetupClass(m) ==
    /\ UNCHANGED manager
    /\ Commit("module_setup", m,
              module_setup([Ctx(db, modules, active_modules, NoFault) EXCEPT !.mod = m], m),
              NoFault, NoStatus, FALSE, {})

NextModules == \E m \in ModuleClasses : SetupClass(m)

SpecModules == InitModules /\ [][NextModules]_vars

----------------------------------------------------------------------------
(* Two add_module coroutines on one event loop: a coroutine runs from one await
   to the next without interruption, and the other may run in between. *)

\* The concurrent callers of add_module(name).
Callers == {1, 2}

NewTask(name) ==
    [name |-> name, pc |-> "check", i |-> 0, existing_collections |-> {},
     inst |-> 0, ret |-> "", failed |-> ""]

\* The next entry of collections_config, from the i-th on, that is not in the
\* names listed before the loop; Len + 1 if there is none.
NextMissing(existing_collections, i) ==
    IF \E j \in i..Len(CollectionsConfig) :
           CollectionsConfig[j].name \notin existing_collections
    THEN CHOOSE j \in i..Len(CollectionsConfig) :
             /\ CollectionsConfig[j].name \notin existing_collections
             /\ \A h \in i..(j - 1) : CollectionsConfig[h].name \in existing_collections
    ELSE Len(CollectionsConfig) + 1

\* The loop of _create_collections goes on with entry i: it awaits the next
\* create_collection, or the module goes on to its first index.
ToCollection(task, i) ==
    IF NextMissing(task.existing_collections, i) <= Len(CollectionsConfig)
    THEN [task EXCEPT !.pc = "create_collection",
                      !.i = NextMissing(task.existing_collections, i)]
    ELSE [task EXCEPT !.pc = "list_indexes", !.i = 1]

\* _create_indexes goes on with index i; after the last one setup returns and
\* _setup_module registers the instance before add_module returns True.
ToIndex(task, i) ==
    IF i <= Len(AuthIndexes) THEN [task EXCEPT !.pc = "list_indexes", !.i = i]
    ELSE [task EXCEPT !.pc = "done", !.ret = "True"]

\* self._modules after the coroutine has moved from its await to state `task`.
Registry(mods, before, task) ==
    IF before.pc # "done" /\ task.pc = "done" /\ task.ret = "True"
       /\ task.name \in AvailableModules
    THEN Register(mods, task.name, task.inst)
    ELSE mods

\* Variant: an error of create_collection does not end the activation.
RaisedInSetupContinuing(task) ==
    ToCollection([task EXCEPT !.failed = CollectionsConfig[task.i].name], task.i + 1)

\* An error raised inside setup leaves _setup_module and is caught by add_module,
\* which returns False.
RaisedInSetup(task) ==
    [task EXCEPT !.pc = "done", !.ret = "False",
                 !.failed = CollectionsConfig[task.i].name]

\* One coroutine moves to `task` and the database to d.
Resume(t, task, d) ==
    /\ tasks' = [tasks EXCEPT ![t] = task]
    /\ modules' = Registry(modules, tasks[t], task)
    /\ db' = d
    /\ UNCHANGED <<active_modules, manager, faults, last, pre, conn>>

\* add_module up to the first await of the activation: the check of _modules,
\* the lookup in _available_modules and the new module instance.
TaskCheck(t) ==
    /\ tasks[t].pc = "check"
    /\ Resume(t,
              IF tasks[t].name \in DOMAIN modules
              THEN [tasks[t] EXCEPT !.pc = "done", !.ret = "False"]
              ELSE IF tasks[t].name \notin AvailableModules
              THEN [tasks[t] EXCEPT !.pc = "done", !.ret = "True"]
              ELSE [tasks[t] EXCEPT !.pc = "list_collection_names", !.inst = t],
              db)

\* existing_collections = await self._database.list_collection_names()
TaskListCollectionNames(t) ==
    /\ tasks[t].pc = "list_collection_names"
    /\ Resume(t, ToCollection([tasks[t] EXCEPT !.existing_collections = DOMAIN db.colls], 1),
              list_collection_names(Start(NoFault)).db)

\* await self._database.create_collection(collection_name, validator=schema)
TaskCreateCollection(t) ==
    /\ tasks[t].pc = "create_collection"
    /\ Resume(t,
              IF create_collection(Start(NoFault), CollectionsConfig[tasks[t].i].name,
                                   CollectionsConfig[tasks[t].i].schema).err # ""
              THEN RaisedInSetup(tasks[t])
              ELSE ToCollection(tasks[t], tasks[t].i + 1),
              create_collection(Start(NoFault), CollectionsConfig[tasks[t].i].name,
                                CollectionsConfig[tasks[t].i].schema).db)

\* What _safe_create_index does with the listed indexes of the wanted name.
AfterListed(task, existing, s) ==
    IF existing = {} THEN [task EXCEPT !.pc = "create_index"]
    ELSE IF \A e \in existing : SameKey(e.key, s.key) /\ SameOptions(e, s.unique, s.ttl)
    THEN ToIndex(task, task.i + 1)
    ELSE IF s.name # "_id_" THEN [task EXCEPT !.pc = "drop_index"]
    ELSE [task EXCEPT !.pc = "create_index"]

\* existing_indexes = await collection.list_indexes().to_list(length=None)
TaskListIndexes(t) ==
    /\ tasks[t].pc = "list_indexes"
    /\ Resume(t,
              AfterListed(tasks[t],
                          {e \in db.idx[AuthIndexes[tasks[t].i].coll] :
                              e.name = AuthIndexes[tasks[t].i].name},
                          AuthIndexes[tasks[t].i]),
              list_indexes(Start(NoFault), AuthIndexes[tasks[t].i].coll,
                           AuthIndexes[tasks[t].i].name).db)

\* await collection.drop_index(index_name); its error ends the reconcile of
\* this index without raising.
TaskDropIndex(t) ==
    /\ tasks[t].pc = "drop_index"
    /\ Resume(t,
              IF drop_index(Start(NoFault), AuthIndexes[tasks[t].i].coll,
                            AuthIndexes[tasks[t].i].name).err # ""
              THEN ToIndex(tasks[t], tasks[t].i + 1)
              ELSE [tasks[t] EXCEPT !.pc = "create_index"],
              drop_index(Start(NoFault), AuthIndexes[tasks[t].i].coll,
                         AuthIndexes[tasks[t].i].name).db)

\* await collection.create_index(index_spec, name=index_name, **kwargs); its
\* error is logged, not raised.
TaskCreateIndex(t) ==
    /\ tasks[t].pc = "create_index"
    /\ Resume(t, ToIndex(tasks[t], tasks[t].i + 1),
              create_index(Start(NoFault), AuthIndexes[tasks[t].i].coll,
                           AuthIndexes[tasks[t].i].key, AuthIndexes[tasks[t].i].name,
                           AuthIndexes[tasks[t].i].unique, AuthIndexes[tasks[t].i].ttl).db)

InitConcurrent ==
    /\ db \in InitDbs
    /\ active_modules = <<>>
    /\ modules = <<>>
    /\ manager = TRUE
    /\ faults = 0
    /\ last = NoOp
    /\ tasks = [t \in Callers |-> NewTask("auth")]
    /\ conn = NoConnection
    /\ pre = [db |-> db, modules |-> modules, active |-> active_modules,
              op |-> "init", clean |-> TRUE,
              name |-> "", ret |-> "None", db0 |-> db]

NextConcurrent ==
    \E t \in Callers :
        \/ TaskCheck(t)
        \/ TaskListCollectionNames(t)
        \/ TaskCreateCollection(t)
        \/ TaskListIndexes(t)
        \/ TaskDropIndex(t)
        \/ TaskCreateIndex(t)

SpecConcurrent == InitConcurrent /\ [][NextConcurrent]_vars

----------------------------------------------------------------------------
(* The connection of the service and its switches *)

\* Connection objects created per behaviour.
MaxConnections == 3

\* The servers a MONGODB_URL can name; the .env of the service names the first.
Urls == {"local", "atlas"}

EnvUrl == "local"

\* MongoDBConnection.disconnect
disconnect(cn) ==
    IF cn.client THEN [cn EXCEPT !.is_connected = FALSE, !.closed = TRUE] ELSE cn

\* DatabaseFactory.create_mongodb_connection(config), assigned to
\* self._connection: a new object that is not connected.
create_mongodb_connection(cn, url) ==
    [cn EXCEPT !.serial = @ + 1, !.connection = cn.serial + 1, !.url = url,
               !.client = FALSE, !.database = FALSE, !.is_connected = FALSE,
               !.closed = FALSE, !.err = ""]

\* MongoDBConnection.connect: client and database handle are made, then the
\* ping decides; its failure is raised as ConnectionError.
connect(cn, reachable) ==
    [cn EXCEPT !.client = TRUE, !.database = TRUE, !.is_connected = reachable,
               !.err = IF reachable THEN "" ELSE "ConnectionError"]

\* OptimizedDatabaseService.get_database and MongoDBConnection.get_database: the
\* handle of the current connection, or RuntimeError.
get_database(cn) ==
    IF cn.connection = 0 THEN "RuntimeError"
    ELSE IF ~cn.is_connected \/ ~cn.database THEN "RuntimeError"
    ELSE "handle"

\* _reconfigure_modules_after_switch: ModuleManager has no reconfigure_database
\* (nor reinitialize_modules), the call raises AttributeError, which is logged
\* and not raised: the manager and its module instances keep their handles.
_reconfigure_modules_after_switch(cn) == cn

\* The body shared by switch_to_url, switch_to_atlas, switch_to_local and
\* switch_to_docker, up to the return.
switch_to(cn, url, reachable, has_manager) ==
    IF connect(create_mongodb_connection(
                   IF cn.connection # 0 THEN disconnect(cn) ELSE cn, url),
               reachable).err # ""
    THEN connect(create_mongodb_connection(
                     IF cn.connection # 0 THEN disconnect(cn) ELSE cn, url),
                 reachable)
    ELSE IF has_manager
    THEN _reconfigure_modules_after_switch(
             connect(create_mongodb_connection(
                         IF cn.connection # 0 THEN disconnect(cn) ELSE cn, url),
                     reachable))
    ELSE connect(create_mongodb_connection(
                     IF cn.connection # 0 THEN disconnect(cn) ELSE cn, url),
                 reachable)

\* _auto_configure_from_env: without MONGODB_URL it raises at once; otherwise
\* the new connection replaces the current one, which is not closed, and
\* connects.
_auto_configure_from_env(cn, url, reachable) ==
    IF url = "" THEN [cn EXCEPT !.err = "ConnectionError"]
    ELSE connect(create_mongodb_connection(cn, url), reachable)

\* reload_from_env, up to the return.
reload_from_env(cn, url, reachable, has_manager) ==
    IF _auto_configure_from_env(cn, url, reachable).err # ""
    THEN _auto_configure_from_env(cn, url, reachable)
    ELSE IF has_manager
    THEN _reconfigure_modules_after_switch(_auto_configure_from_env(cn, url, reachable))
    ELSE _auto_configure_from_env(cn, url, reachable)

\* The connection as it was before the operation now running.
Before(cn) ==
    [cn EXCEPT !.before = [connection |-> conn.connection, url |-> conn.url,
                           is_connected |-> conn.is_connected]]

\* The database behind a URL: db is the one behind the URL of .env.
DbAt(url) == IF url = EnvUrl THEN db ELSE conn.dbs[url]

SwitchOps == {"switch_to_url", "switch_to_atlas", "switch_to_local", "switch_to_docker"}

\* A service operation that ran no module code has ended with connection cn.
Switched(op, url, cn, log) ==
    /\ conn' = Before([cn EXCEPT !.err = ""])
    /\ last' = [NoOp EXCEPT !.op = op, !.name = url,
                            !.ret = IF cn.err # "" THEN "False" ELSE "True",
                            !.log = log]
    /\ pre' = [db |-> db, modules |-> modules, active |-> active_modules,
               op |-> last.op, clean |-> Clean(last),
               name |-> last.name, ret |-> last.ret, db0 |-> pre.db]
    /\ UNCHANGED <<db, active_modules, modules, manager, faults, tasks>>

InitSwitch ==
    /\ db \in InitDbs
    /\ active_modules = <<"auth">>
    /\ modules = <<>>
    /\ manager = FALSE
    /\ faults = 0
    /\ last = NoOp
    /\ tasks = <<>>
    /\ conn = [NoConnection EXCEPT !.dbs = [u \in Urls \ {EnvUrl} |-> EmptyDb]]
    /\ pre = [db |-> db, modules |-> modules, active |-> active_modules,
              op |-> "init", clean |-> TRUE,
              name |-> "", ret |-> "None", db0 |-> db]

\* await database_service.initialize(): the connection from .env, the manager
\* on its database handle, the modules of the active list, the initial data.
ServiceInitialize(reachable) ==
    /\ ~manager
    /\ conn.serial < MaxConnections
    /\ \/ /\ ~reachable
          /\ conn' = Before([_auto_configure_from_env(conn, EnvUrl, reachable)
                                EXCEPT !.err = ""])
          /\ last' = [NoOp EXCEPT !.op = "initialize", !.raised = TRUE]
          /\ UNCHANGED <<db, modules, manager>>
       \/ /\ reachable
          /\ manager' = TRUE
          /\ \E c \in {initialize(Start(NoFault))} :
                /\ db' = c.db
                /\ modules' = c.modules
                /\ conn' = Before(
                       [_auto_configure_from_env(conn, EnvUrl, reachable) EXCEPT
                           !.manager_db = conn.serial + 1,
                           !.instance_db = [n \in DOMAIN c.modules |-> conn.serial + 1]])
                /\ last' = [NoOp EXCEPT !.op = "initialize", !.calls = c.calls,
                                        !.log = c.log]
    /\ pre' = [db |-> db, modules |-> modules, active |-> active_modules,
               op |-> last.op, clean |-> Clean(last),
               name |-> last.name, ret |-> last.ret, db0 |-> pre.db]
    /\ UNCHANGED <<active_modules, faults, tasks>>

\* await database_service.switch_to_url(url) and its three siblings.
Switch(op, url, reachable) ==
    /\ conn.serial < MaxConnections
    /\ Switched(op, url, switch_to(conn, url, reachable, manager),
                IF reachable /\ manager
                THEN <<[level |-> "error", about |-> "reconfigure"]>>
                ELSE IF reachable THEN <<>>
                ELSE <<[level |-> "error", about |-> op]>>)

\* await database_service.reload_from_env(), MONGODB_URL being url by now.
ReloadFromEnv(url, reachable) ==
    /\ conn.serial < MaxConnections
    /\ Switched("reload_from_env", url, reload_from_env(conn, url, reachable, manager),
                IF url # "" /\ reachable /\ manager
                THEN <<[level |-> "error", about |-> "reconfigure"]>>
                ELSE IF url # "" /\ reachable THEN <<>>
                ELSE <<[level |-> "error", about |-> "reload_from_env"]>>)

NextSwitch ==
    \/ \E reachable \in BOOLEAN : ServiceInitialize(reachable)
    \/ \E op \in SwitchOps, url \in Urls, reachable \in BOOLEAN : Switch(op, url, reachable)
    \/ \E url \in Urls \cup {""}, reachable \in BOOLEAN : ReloadFromEnv(url, reachable)

SpecSwitch == InitSwitch /\ [][NextSwitch]_vars

----------------------------------------------------------------------------
(* Properties *)

IsSetup == last.op \in {"initialize", "setup_modules"}

CallsOf(ops) == SelectSeq(last.calls, LAMBDA call : call.op \in ops)

Logged(level, about) == [level |-> level, about |-> about] \in Range(last.log)

NamesOf(calls) == [i \in DOMAIN calls |-> calls[i].name]

AuthIndexNames == [i \in DOMAIN AuthIndexes |-> AuthIndexes[i].name]

Declared(s) == StoredIndex(s.key, s.name, s.unique, s.ttl)

\* C1: when setup_modules runs twice in a row with the same active list and no
\* driver call fails, the second run issues no create_index, no drop_index and
\* no create_collection, and every declared auth index resolves to "already
\* exists correctly".
C1_SecondSetupChangesNothing ==
    (/\ last.op = "setup_modules" /\ pre.op = "setup_modules"
     /\ pre.clean /\ Clean(last)
     /\ pre.active = active_modules)
    => /\ CallsOf({"create_index", "drop_index", "create_collection"}) = <<>>
       /\ "auth" \in Range(active_modules) =>
             \A i \in DOMAIN AuthIndexes : Logged("exists", AuthIndexes[i].name)

\* C2: when a live index named N differs from the desired definition of N in key
\* pattern, unique flag or expireAfterSeconds and no driver call fails,
\* _safe_create_index drops N, creates it again, and the live index N then has
\* exactly the desired definition.
C2_RedefinitionConverges ==
    (/\ last.op = "_safe_create_index"
     /\ \E i \in pre.db.idx["users"] :
            i.name = last.name /\ i # Declared(last.spec)
     /\ ~Failed(last.calls))
    => /\ NamesOf(CallsOf({"drop_index", "create_index"})) = <<last.name, last.name>>
       /\ CallsOf({"drop_index", "create_index"})[1].op = "drop_index"
       /\ Declared(last.spec) \in db.idx["users"]

\* C3: when create_index or drop_index fails for a declared auth index, the
\* reconcile of every declared index is still run, in order, the activation
\* does not raise, and auth is in the manager's active set.
C3_IndexFailureTolerated ==
    (/\ last.op \in {"initialize", "setup_modules", "add_module", "service_add_module"}
     /\ Failed(CallsOf({"create_index", "drop_index"})))
    => /\ NamesOf(CallsOf({"list_indexes"})) = AuthIndexNames
       /\ ~last.raised
       /\ last.ret # "False"
       /\ "auth" \in DOMAIN modules

\* C3 witness: creating idx_user_email failed, the later indexes were reconciled
\* and auth was activated.
C3_Witness ==
    /\ last.op = "setup_modules"
    /\ \E i \in DOMAIN last.calls :
          /\ last.calls[i] = [op |-> "create_index", coll |-> "users",
                              name |-> "idx_user_email", ok |-> FALSE, mod |-> "auth"]
          /\ \E j \in DOMAIN last.calls :
                j > i /\ last.calls[j].op = "create_index" /\ last.calls[j].ok
    /\ "auth" \in DOMAIN modules

\* C4: remove_module("auth") returns False and leaves the active modules
\* unchanged, on the manager as on the service.
C4_AuthNeverRemoved ==
    (last.op \in {"remove_module", "service_remove_module"} /\ last.name = "auth")
    => last.ret = "False" /\ modules = pre.modules /\ active_modules = pre.active

\* C5: in a batch, a name that is not available is not activated and gets no
\* database operation; when the batch returns, an error is logged for it and
\* the available names of the list are activated in list order; the batch
\* raises only when a driver call fails.
C5_UnknownModuleSkipped ==
    IsSetup =>
       /\ \A n \in Range(pre.active) \ AvailableModules :
             /\ n \notin DOMAIN modules
             /\ \A i \in DOMAIN last.calls : last.calls[i].mod # n
             /\ ~last.raised => Logged("error", n)
       /\ ~Failed(last.calls) => ~last.raised
       /\ ~last.raised =>
             /\ SelectSeq(last.log, LAMBDA e : e.level = "configured")
                  = [i \in DOMAIN SelectSeq(pre.active, LAMBDA n : n \in AvailableModules)
                        |-> [level |-> "configured",
                             about |-> SelectSeq(pre.active,
                                          LAMBDA n : n \in AvailableModules)[i]]]
             /\ Range(pre.active) \cap AvailableModules \subseteq DOMAIN modules

\* C5 witness: the batch ["ghost", "auth"] returned with auth activated.
C5_Witness ==
    /\ last.op = "setup_modules"
    /\ pre.active = <<"ghost", "auth">>
    /\ ~last.raised
    /\ Logged("error", "ghost")
    /\ DOMAIN modules = {"auth"}
    /\ last.calls # <<>>

\* C6: from an empty database, a setup of the active list ["auth"] with no
\* failing driver call leaves the five auth collections, every declared index
\* under its name with the declared key pattern, unique flag and
\* expireAfterSeconds, a status of one active module and five collections for
\* auth.
C6_EndToEnd ==
    (/\ IsSetup /\ pre.db = EmptyDb /\ pre.active = <<"auth">> /\ Clean(last))
    => /\ DOMAIN db.colls = Range(AuthCollections)
       /\ \A i \in DOMAIN CollectionsConfig :
             db.colls[CollectionsConfig[i].name] = CollectionsConfig[i].schema
       /\ \A c \in CollNames :
             db.idx[c] = {IdIndex} \cup {Declared(AuthIndexes[i]) :
                                            i \in {j \in DOMAIN AuthIndexes :
                                                     AuthIndexes[j].coll = c}}
       /\ get_status(modules, {}).active_modules = 1
       /\ DOMAIN get_status(modules, {}).modules = {"auth"}
       /\ get_status(modules, {}).modules["auth"].collections = 5

\* C6 witness: setup_modules has run on the empty database with ["auth"].
C6_Witness ==
    /\ last.op = "setup_modules" /\ pre.db = EmptyDb /\ pre.active = <<"auth">>
    /\ Clean(last)
    /\ Len(CallsOf({"create_index"})) = Len(AuthIndexes)

\* C7: add_module returns True only if the name is in the manager's active set
\* when it returns, on the manager as on the service.
C7_AddModuleTruthful ==
    (last.op \in {"add_module", "service_add_module"} /\ last.ret = "True")
    => last.name \in DOMAIN modules

\* C8: add_module of a name that is already active makes no driver call, keeps
\* the registered instance and the active set, changes nothing in the database
\* and does not raise.
C8_AddActiveIsNoOp ==
    (last.op = "add_module" /\ last.name \in DOMAIN pre.modules)
    => /\ last.calls = <<>>
       /\ modules = pre.modules
       /\ db = pre.db
       /\ ~last.raised
       /\ last.ret = "False"

\* C8 witness: add_module("auth") was called with auth active.
C8_Witness ==
    /\ last.op = "add_module" /\ last.name = "auth"
    /\ "auth" \in DOMAIN pre.modules
    /\ db.idx["users"] # {}

\* C9: remove_module makes no driver call and leaves collections, indexes and
\* documents as they were, whatever it returns.
C9_RemoveKeepsData ==
    last.op \in {"remove_module", "service_remove_module"}
    => last.calls = <<>> /\ db = pre.db

\* C9 witness: an active module was removed from a database that holds
\* collections, indexes and documents.
C9_Witness ==
    /\ last.op = "remove_module" /\ last.ret = "True"
    /\ last.name \in DOMAIN pre.modules
    /\ db.docs["users"] # {}
    /\ Cardinality(db.idx["users"]) > 1

\* C10: when cleanup() of an active module raises during remove_module, the
\* error is logged and the name is still removed from the active set.
C10_CleanupFailureStillRemoves ==
    (/\ last.op = "remove_module" /\ last.cleanup_raised
     /\ last.name \in DOMAIN pre.modules)
    => Logged("error", last.name) /\ last.name \notin DOMAIN modules

Attempted(n) == \E i \in DOMAIN last.calls : last.calls[i].mod = n

AttemptRaised(n) == Attempted(n) /\ Logged("error", n)

IsActivation ==
    last.op \in {"initialize", "setup_modules", "add_module", "service_add_module"}

\* C12: after an activation attempt of a module, the module is in the manager's
\* active set exactly if the attempt did not raise, also when the module was
\* already active before the attempt.
C12_ActiveIffLastAttemptSucceeded ==
    IsActivation
    => \A n \in ModuleNames :
          Attempted(n) => (n \in DOMAIN modules <=> ~AttemptRaised(n))

\* C13: after initialize, add_module or remove_module of the service, the list
\* the service reports as active holds exactly the names registered in the
\* manager.
C13_ReportedIsActive ==
    (manager /\ last.op \in {"initialize", "service_add_module", "service_remove_module"})
    => Range(get_active_modules) = DOMAIN modules

\* The last operation did not register an instance of module n.
NotInserted(n) ==
    \/ n \notin DOMAIN modules
    \/ n \in DOMAIN pre.modules /\ modules[n] = pre.modules[n]

\* C14: when list_indexes fails during the index reconciliation of a module,
\* the setup of the module raises and the module is not inserted into the
\* active set.
C14_ListFailurePropagates ==
    IsActivation
    => \A i \in DOMAIN last.calls :
          (last.calls[i].op = "list_indexes" /\ ~last.calls[i].ok)
          => AttemptRaised(last.calls[i].mod) /\ NotInserted(last.calls[i].mod)

\* C15: when list_collection_names or create_collection fails in the setup of a
\* module, that attempt makes no index call and does not reach the module's own
\* setup, the module is not inserted into the active set, add_module returns
\* False and a batch raises, and the collections created before the failure are
\* still in the database.
C15_CollectionFailureFatal ==
    IsActivation
    => \A i \in DOMAIN last.calls :
          (/\ last.calls[i].op \in {"list_collection_names", "create_collection"}
           /\ ~last.calls[i].ok)
          => /\ \A j \in DOMAIN last.calls :
                   last.calls[j].mod = last.calls[i].mod
                   => last.calls[j].op \notin {"list_indexes", "drop_index", "create_index"}
             /\ ~Logged("setup", last.calls[i].mod)
             /\ NotInserted(last.calls[i].mod)
             /\ last.op = "add_module" => last.ret = "False" /\ ~last.raised
             /\ last.op \in {"setup_modules", "initialize"} => last.raised
             /\ DOMAIN pre.db.colls \subseteq DOMAIN db.colls
             /\ \A j \in 1..(i - 1) :
                   last.calls[j].op = "create_collection" => HasColl(db, last.calls[j].coll)

\* C15 witness: add_module("auth") failed at the creation of password_resets
\* after it had created parent_students.
C15_Witness ==
    /\ last.op = "add_module" /\ last.name = "auth" /\ last.ret = "False"
    /\ \E i \in DOMAIN last.calls :
          last.calls[i] = [op |-> "create_collection", coll |-> "password_resets",
                           name |-> "", ok |-> FALSE, mod |-> "auth"]
    /\ ~HasColl(pre.db, "parent_students")
    /\ HasColl(db, "parent_students")
    /\ "auth" \notin DOMAIN modules

\* add_module(name) has run right after a remove_module(name) that removed the
\* module, and no driver call of it failed; pre.db0 is the database before the
\* removal.
RemovedThenAdded ==
    /\ last.op = "add_module" /\ pre.op = "remove_module"
    /\ pre.name = last.name /\ pre.ret = "True"
    /\ ~Failed(last.calls)

\* The declared definition of the index `name` of collection c, if any.
DeclaredAs(c, name) ==
    {Declared(AuthIndexes[i]) :
        i \in {j \in DOMAIN AuthIndexes :
                 AuthIndexes[j].coll = c /\ AuthIndexes[j].name = name}}

\* Every declared index is live with its declared definition.
AllDeclaredLive(d) ==
    \A i \in DOMAIN AuthIndexes :
        /\ HasColl(d, AuthIndexes[i].coll)
        /\ Declared(AuthIndexes[i]) \in d.idx[AuthIndexes[i].coll]

C17_RetryConverges ==
    (IsActivation /\ Attempted("auth") /\ ~Failed(last.calls))
    => /\ Range(AuthCollections) \subseteq DOMAIN db.colls
       /\ AllDeclaredLive(db)

\* The live indexes of the wanted name before the reconcile, and whether one has
\* the wanted key pattern, pair by pair in order, unique flag and
\* expireAfterSeconds.
LiveNamed == {i \in pre.db.idx["users"] : i.name = last.name}

LiveMatches ==
    \E i \in LiveNamed :
        i.key = last.spec.key /\ i.unique = last.spec.unique /\ i.ttl = last.spec.ttl

ListedIndexes ==
    /\ last.op = "_safe_create_index"
    /\ \E i \in DOMAIN last.calls : last.calls[i].op = "list_indexes" /\ last.calls[i].ok

\* C18: a reconcile that has listed the indexes makes no drop and no create call
\* exactly if a live index of the wanted name has the wanted key pattern as an
\* ordered sequence, unique flag and expireAfterSeconds; a live index of the name
\* that differs is dropped and, the drop done, created again (_id_ apart, which
\* is never dropped).
C18_DecisionRule ==
    ListedIndexes
    => /\ CallsOf({"drop_index", "create_index"}) = <<>> <=> LiveMatches
       /\ (LiveNamed # {} /\ ~LiveMatches /\ last.name # "_id_")
          => /\ CallsOf({"drop_index", "create_index"})[1].op = "drop_index"
             /\ CallsOf({"drop_index", "create_index"})[1].name = last.name
             /\ CallsOf({"drop_index"})[1].ok
                => \E j \in DOMAIN last.calls :
                      last.calls[j].op = "create_index" /\ last.calls[j].name = last.name

\* C19: no reconcile calls drop_index for the primary-key index _id_, whatever
\* the wanted definition and the live catalog.
C19_IdIndexNeverDropped ==
    \A i \in DOMAIN last.calls :
        ~(last.calls[i].op = "drop_index" /\ last.calls[i].name = "_id_")

\* C19 witness: a reconcile of the name _id_ with a definition other than the
\* live one went on to create_index without a drop.
C19_Witness ==
    /\ last.op = "_safe_create_index" /\ last.name = "_id_"
    /\ LiveNamed = {IdIndex} /\ ~LiveMatches
    /\ Logged("recreate", "_id_")
    /\ NamesOf(CallsOf({"drop_index", "create_index"})) = <<"_id_">>
    /\ IdIndex \in db.idx["users"]

\* C20: the only index a reconcile of the name N drops is the one named N;
\* every live index of another name is still live afterwards, also when it has
\* the wanted key pattern and makes the creation fail.
C20_ForeignIndexesKept ==
    last.op = "_safe_create_index"
    => /\ \A i \in DOMAIN last.calls :
             last.calls[i].op = "drop_index" => last.calls[i].name = last.name
       /\ \A i \in pre.db.idx["users"] :
             i.name # last.name => i \in db.idx["users"]

\* C20 witness: idx_a was dropped, its creation failed because idx_b has the
\* wanted key pattern, and idx_b is still live.
C20_Witness ==
    /\ last.op = "_safe_create_index" /\ last.name = "idx_a"
    /\ \E b \in pre.db.idx["users"] :
          b.name = "idx_b" /\ b.key = last.spec.key /\ b \in db.idx["users"]
    /\ \E i, j \in DOMAIN last.calls :
          /\ last.calls[i].op = "drop_index" /\ last.calls[i].ok
          /\ last.calls[j].op = "create_index" /\ ~last.calls[j].ok
    /\ Logged("warning", "idx_a") \/ Logged("info", "idx_a")

\* The index calls of the last operation, in the order they were issued.
IndexCalls == CallsOf({"list_indexes", "drop_index", "create_index"})

\* C21: the index calls of an operation come in groups, one per reconciled
\* index: one list_indexes, then at most one drop_index, then at most one
\* create_index, a call following only a call that succeeded; the group of the
\* next index starts after the group of the previous one has ended.
C21_IndexCallsSequenced ==
    \A i \in DOMAIN IndexCalls :
        LET call == IndexCalls[i]
        IN /\ call.op = "list_indexes"
              => \A j \in DOMAIN IndexCalls :
                    (j # i /\ IndexCalls[j].op = "list_indexes")
                    => IndexCalls[j].name # call.name
           /\ call.op = "drop_index"
              => /\ i > 1
                 /\ IndexCalls[i - 1] = [call EXCEPT !.op = "list_indexes", !.ok = TRUE]
           /\ call.op = "create_index"
              => /\ i > 1
                 /\ IndexCalls[i - 1].op \in {"list_indexes", "drop_index"}
                 /\ IndexCalls[i - 1] = [call EXCEPT !.op = IndexCalls[i - 1].op,
                                                      !.ok = TRUE]
           /\ i < Len(IndexCalls) /\ IndexCalls[i + 1].op = "list_indexes"
              => IndexCalls[i + 1].name # call.name

\* C21 witness: an activation dropped and created idx_user_email and then
\* listed the indexes for idx_user_role_status.
C21_Witness ==
    /\ IsActivation
    /\ Len(IndexCalls) >= 4
    /\ [i \in 1..4 |-> <<IndexCalls[i].op, IndexCalls[i].name, IndexCalls[i].ok>>]
         = << <<"list_indexes", "idx_user_email", TRUE>>,
              <<"drop_index", "idx_user_email", TRUE>>,
              <<"create_index", "idx_user_email", TRUE>>,
              <<"list_indexes", "idx_user_role_status", TRUE>> >>

\* C22: in an activation, every collection call of a module comes before its
\* first index call, the module's setup ends after the last index has been
\* reconciled, and the manager registers the module after the setup has ended.
C22_ActivationOrder ==
    IsActivation
    => /\ \A i, j \in DOMAIN last.calls :
             (/\ last.calls[i].op \in {"list_indexes", "drop_index", "create_index"}
              /\ last.calls[j].op \in {"list_collection_names", "create_collection"}
              /\ last.calls[i].mod = last.calls[j].mod)
             => j < i
       /\ \A n \in ModuleNames :
             /\ \A i \in DOMAIN last.log :
                   last.log[i] = [level |-> "configured", about |-> n]
                   => \E j \in 1..(i - 1) :
                         /\ last.log[j] = [level |-> "setup", about |-> n]
                         /\ \A k \in DOMAIN last.log :
                               last.log[k].about \in IndexNames => k < j
             /\ ~NotInserted(n) => Logged("configured", n)

\* C22 witness: an activation of auth created collections, created indexes and
\* registered the module.
C22_Witness ==
    /\ last.op = "add_module" /\ last.name = "auth"
    /\ CallsOf({"create_collection"}) # <<>>
    /\ CallsOf({"create_index"}) # <<>>
    /\ Logged("setup", "auth") /\ Logged("configured", "auth")
    /\ "auth" \in DOMAIN modules /\ "auth" \notin DOMAIN pre.modules

\* C23: create_collection is called only for declared collections that did not
\* exist when the operation started, and a collection that existed keeps its
\* validator, also when the declared validator is another one.
C23_ExistingCollectionsUntouched ==
    /\ \A i \in DOMAIN last.calls :
          last.calls[i].op = "create_collection"
          => /\ last.calls[i].coll \in Range(AuthCollections)
             /\ ~HasColl(pre.db, last.calls[i].coll)
    /\ \A c \in DOMAIN pre.db.colls :
          HasColl(db, c) /\ db.colls[c] = pre.db.colls[c]

\* C23 witness: user_sessions existed without a validator, the activation
\* created the missing collections and user_sessions still has no validator.
C23_Witness ==
    /\ IsActivation /\ Attempted("auth")
    /\ HasColl(pre.db, "user_sessions") /\ pre.db.colls["user_sessions"] = ""
    /\ \E i \in DOMAIN CollectionsConfig :
          CollectionsConfig[i].name = "user_sessions" /\ CollectionsConfig[i].schema # ""
    /\ CallsOf({"create_collection"}) # <<>>
    /\ db.colls["user_sessions"] = ""

\* C24: when the creation of one declared index of a module fails with a
\* conflict, the setup of the module does not raise and every declared index of
\* the module is still attempted.
C24_ConflictsNonFatal ==
    (last.op = "module_setup" /\ Failed(CallsOf({"create_index"})))
    => /\ ~last.raised
       /\ \A i \in DOMAIN ModuleIndexes(last.name) :
             \E j \in DOMAIN last.calls :
                /\ last.calls[j].op \in {"list_indexes", "create_index"}
                /\ last.calls[j].name = ModuleIndexes(last.name)[i].name

\* The activation of the k-th name of the active list raised in the last call.
ActivationRaisedAt(k) ==
    /\ k \in DOMAIN active_modules
    /\ active_modules[k] \in AvailableModules
    /\ Logged("error", active_modules[k])

\* C25: when the activation of the k-th name of the active list raises inside
\* setup_modules, setup_modules raises, the names activated before it in the
\* call are in the active set, the k-th and all later names are not in the
\* active set, and no later name gets a database operation from the call.
C25_FailureStopsBatch ==
    last.op = "setup_modules"
    => \A k \in DOMAIN active_modules :
          ActivationRaisedAt(k)
          => /\ last.raised
             /\ \A i \in 1..(k - 1) :
                   active_modules[i] \in AvailableModules
                   => active_modules[i] \in DOMAIN modules
             /\ \A i \in k..Len(active_modules) :
                   active_modules[i] \notin DOMAIN modules
             /\ \A i \in (k + 1)..Len(active_modules) :
                   \A j \in DOMAIN last.calls :
                      last.calls[j].mod # active_modules[i]

ConfigNames(m) == {ModuleConfig(m)[i].name : i \in DOMAIN ModuleConfig(m)}

\* The collection of the j-th driver call of the last operation existed before
\* the operation or was created by an earlier create_collection of it.
ProvisionedBefore(j) ==
    \/ HasColl(pre.db, last.calls[j].coll)
    \/ \E h \in 1..(j - 1) :
          /\ last.calls[h].op = "create_collection"
          /\ last.calls[h].ok
          /\ last.calls[h].coll = last.calls[j].coll

\* C26: in each module class every index is declared on a collection that the
\* module lists in _collections and creates in _create_collections, the names in
\* _collections are the keys of collections_config, index names are unique
\* within a collection, and so a setup never creates an index on a collection
\* that it did not find or create itself.
C26_DeclarationsConsistent ==
    last.op = "module_setup"
    => /\ \A i \in DOMAIN ModuleIndexes(last.name) :
             /\ ModuleIndexes(last.name)[i].coll \in Range(ModuleCollections(last.name))
             /\ ModuleIndexes(last.name)[i].coll \in ConfigNames(last.name)
       /\ Range(ModuleCollections(last.name)) = ConfigNames(last.name)
       /\ \A i, j \in DOMAIN ModuleIndexes(last.name) :
             (/\ i # j
              /\ ModuleIndexes(last.name)[i].coll = ModuleIndexes(last.name)[j].coll)
             => ModuleIndexes(last.name)[i].name # ModuleIndexes(last.name)[j].name
       /\ \A j \in DOMAIN last.calls :
             last.calls[j].op = "create_index" => ProvisionedBefore(j)

\* C26 witness: the task module was set up on a database without its
\* collections and created indexes on more than one of them.
C26_Witness ==
    /\ last.op = "module_setup"
    /\ last.name = "task"
    /\ ~last.raised
    /\ ~HasColl(pre.db, "task_submissions")
    /\ \E j \in DOMAIN last.calls :
          /\ last.calls[j].op = "create_index"
          /\ last.calls[j].ok
          /\ last.calls[j].coll = "task_submissions"

PassedCheck(t) == tasks[t].pc \notin {"check"} /\ tasks[t].inst = t

\* C27: of two add_module calls for the same inactive available name that
\* interleave at their awaits, a call whose create_collection failed returns
\* False, and the registry never holds more than the one entry for the name:
\* the instance of a call that activated the module and returned True.
C27_OneRegistryEntry ==
    tasks # <<>>
    => /\ \A t \in Callers :
             (tasks[t].pc = "done" /\ tasks[t].failed # "") => tasks[t].ret = "False"
       /\ DOMAIN modules \subseteq {tasks[t].name : t \in Callers}
       /\ \A n \in DOMAIN modules :
             \E t \in Callers :
                /\ tasks[t].name = n
                /\ tasks[t].inst = modules[n]
                /\ tasks[t].pc = "done"
                /\ tasks[t].ret = "True"
                /\ tasks[t].failed = ""

\* C27 witness: both calls passed the check of _modules and ran the activation;
\* the create_collection of one failed on a collection the other had just
\* created, and the registry holds the instance of the other.
C27_Witness ==
    /\ tasks # <<>>
    /\ \A t \in Callers : PassedCheck(t) /\ tasks[t].pc = "done"
    /\ \E t \in Callers :
          /\ tasks[t].failed # ""
          /\ tasks[t].failed \notin tasks[t].existing_collections
          /\ tasks[t].ret = "False"
    /\ DOMAIN modules = {"auth"}

\* C28: if a live index of the wanted name exists before a _safe_create_index
\* call, a live index of that name exists after the call, whatever driver call
\* fails during it.
C28_RedefinitionKeepsIndex ==
    (/\ last.op = "_safe_create_index"
     /\ \E i \in pre.db.idx["users"] : i.name = last.name)
    => \E i \in db.idx["users"] : i.name = last.name

\* C29: after switch_to_url, switch_to_atlas, switch_to_local, switch_to_docker
\* or reload_from_env has returned True, the ModuleManager and every active
\* module instance use the database handle of the new connection, and the
\* declared collections and indexes of the active modules are set up in the
\* database of the new connection.
C29_ModulesFollowSwitch ==
    (/\ last.op \in SwitchOps \cup {"reload_from_env"}
     /\ last.ret = "True"
     /\ manager)
    => /\ conn.manager_db = conn.connection
       /\ \A n \in DOMAIN modules : conn.instance_db[n] = conn.connection
       /\ "auth" \in DOMAIN modules => AllDeclaredLive(DbAt(conn.url))

\* C30: when a switch returns False because the new connection could not be
\* established, the service is still connected to the database it was connected
\* to before, and get_database() returns a handle.
C30_FailedSwitchKeepsConnection ==
    (/\ last.op \in SwitchOps
     /\ last.ret = "False"
     /\ conn.before.is_connected)
    => /\ conn.is_connected
       /\ conn.connection = conn.before.connection
       /\ conn.url = conn.before.url
       /\ get_database(conn) # "RuntimeError"

====
